---- MODULE Spec2Model ----
(***************************************************************************)
(* BladeBot: challenge ledger, rating updates and rank ladder.             *)
(*                                                                         *)
(* The bot runs on one cooperative event loop: every `await` (each SQL     *)
(* statement sent through aiosqlite, each Discord call) is a suspension    *)
(* point at which another command handler may run.  Handlers are therefore *)
(* modelled as processes whose atomic steps are the single SQL statements  *)
(* (together with the Python code that follows them up to the next await). *)
(***************************************************************************)
EXTENDS Integers, Sequences, FiniteSets, TLC

VARIABLES
    users,          \* table users: discord_id -> row
    others,         \* active users not modelled one by one: rank -> how many
    challenges,     \* table challenges: challenge_id (index) -> row
    activeTickets,  \* table active_tickets: set of rows
    matches,        \* table matches: match_id -> row (absent ids are not in the domain)
    nextMatchId,    \* AUTOINCREMENT counter of matches
    prcs,           \* table pending_rank_changes: change_id (index) -> row
    now,            \* wall clock, in ticks of 24 hours, observed once a week
    pc,             \* per handler: the statement it is suspended at
    loc,            \* per handler: its local variables
    res,            \* per handler: what its last finished command returned
    q,              \* the last call of a pure query (can_rank_change_occur,
                    \* calculate_elo_change, get_next_rank) and its result
    snap            \* history: the users table as it was when the last match was recorded

vars == <<users, others, challenges, activeTickets, matches, nextMatchId, prcs,
          now, pc, loc, res, q, snap>>

-----------------------------------------------------------------------------
(* Bounds of the model *)

MaxChallenges == 2      \* rows the challenges table may hold
MaxWeeks == 2           \* weeks the clock runs
MaxMatches == 2         \* rows ever inserted into matches

(* Program constants, in ticks of 24 hours *)
ChallengeTimeoutTicks == 7   \* BOT_LIMITS['challenge_timeout_minutes'] = 10080
QueryCooldownTicks == 1      \* timedelta(hours=24) in can_user_challenge
BmCooldownTicks == 3         \* DUEL_TYPES['bm']['cooldown_hours'] = 72
ClockStep == ChallengeTimeoutTicks   \* the clock advances a week at a time

Users == {1, 2, 3}
Procs == {"h1", "h2"}
NoUser == 0             \* SQL NULL in a user-id column
Null == -1              \* SQL NULL in a timestamp / channel column
ChallengeTypes == {"official", "bm"}

-----------------------------------------------------------------------------
(* config.py: the rank ladder *)

TIER_HIERARCHY == <<"Bronze", "Silver", "Gold", "Platinum", "Diamond">>

NUMERAL_HIERARCHY ==
    [Bronze   |-> <<"IV", "III", "II", "I">>,
     Silver   |-> <<"IV", "III", "II", "I">>,
     Gold     |-> <<"III", "II", "I">>,
     Platinum |-> <<"III", "II", "I">>,
     Diamond  |-> <<"II", "I">>]

RANK_CAPACITY ==
    [Diamond  |-> [I |-> 1, II |-> 3],
     Platinum |-> [I |-> 1, II |-> 3, III |-> 5],
     Gold     |-> [I |-> 2, II |-> 6, III |-> 10],
     Silver   |-> [I |-> 2, II |-> 5, III |-> 9, IV |-> 12],
     Bronze   |-> [I |-> 3, II |-> 8, III |-> 12, IV |-> 18]]

Rank(t, n) == [tier |-> t, numeral |-> n]
NoRank == Rank("None", "None")          \* the pair (None, None)
GuestRank == Rank("Guest", "N/A")
EvalRank == Rank("Evaluation", "N/A")

SeqRange(s) == {s[i] : i \in 1..Len(s)}
IndexOf(s, x) == CHOOSE i \in 1..Len(s) : s[i] = x

LadderTiers == SeqRange(TIER_HIERARCHY)
LadderRanks == {Rank(t, n) : t \in LadderTiers, n \in {"I", "II", "III", "IV"}}
                 \cap UNION {{Rank(t, n) : n \in SeqRange(NUMERAL_HIERARCHY[t])} : t \in LadderTiers}

\* a variant that never leaves a tier: after the last numeral comes the first again
get_next_rank_in_tier(r) ==
    IF r.tier \in {"Guest", "Evaluation"} THEN Rank("Bronze", "IV")
    ELSE IF r.tier \notin LadderTiers THEN NoRank
    ELSE LET nums == NUMERAL_HIERARCHY[r.tier]
             ni == IndexOf(nums, r.numeral)
         IN  IF ni < Len(nums) THEN Rank(r.tier, nums[ni + 1]) ELSE Rank(r.tier, nums[1])

\* get_next_rank(current_tier, current_numeral)
get_next_rank(r) ==
    IF r.tier \in {"Guest", "Evaluation"} THEN Rank("Bronze", "IV")
    ELSE IF r.tier \notin LadderTiers THEN NoRank
    ELSE LET ti == IndexOf(TIER_HIERARCHY, r.tier)
             nums == NUMERAL_HIERARCHY[r.tier]
             ni == IndexOf(nums, r.numeral)
         IN  IF ni < Len(nums) THEN Rank(r.tier, nums[ni + 1])
             ELSE IF ti < Len(TIER_HIERARCHY)
                  THEN Rank(TIER_HIERARCHY[ti + 1], NUMERAL_HIERARCHY[TIER_HIERARCHY[ti + 1]][1])
                  ELSE NoRank

\* is rank r1 directly above rank r2
is_rank_above(r1, r2) == get_next_rank(r2) = r1

UserRank(u) == Rank(users[u].tier, users[u].numeral)

-----------------------------------------------------------------------------
(* Challenge ledger: ChallengeSystem, Database, DatabaseQueries, DuelWorkflows *)

ChallengeIds == DOMAIN challenges

\* SQL: expires_at > datetime('now')
Unexpired(c) == c.expires > now

\* Python: datetime.now() > datetime.fromisoformat(challenge['expires_at'])
PastExpiry(c) == now > c.expires

\* SQL: ((challenger_id = a AND challenged_id = b) OR (challenger_id = b AND challenged_id = a))
\*      AND status = 'pending' AND expires_at > datetime('now')
PendingBetween(a, b) ==
    {i \in ChallengeIds :
        /\ \/ challenges[i].challenger = a /\ challenges[i].challenged = b
           \/ challenges[i].challenger = b /\ challenges[i].challenged = a
        /\ challenges[i].status = "pending"
        /\ Unexpired(challenges[i])}

\* SQL: challenger_id = u AND challenge_type = t AND status = 'pending' AND expires_at > datetime('now')
PendingOfType(u, t) ==
    {i \in ChallengeIds :
        /\ challenges[i].challenger = u
        /\ challenges[i].ctype = t
        /\ challenges[i].status = "pending"
        /\ Unexpired(challenges[i])}

\* SQL: (challenger_id = u OR challenged_id = u) AND status = 'pending' AND expires_at > datetime('now')
get_active_challenges(u) ==
    {i \in ChallengeIds :
        /\ challenges[i].challenger = u \/ challenges[i].challenged = u
        /\ challenges[i].status = "pending"
        /\ Unexpired(challenges[i])}

\* SQL: SELECT COUNT(*) FROM active_tickets WHERE channel_id = ch AND status = "active"
TicketExists(ch) == \E t \in activeTickets : t.channel = ch /\ t.status = "active"

\* UPDATE challenges SET status = s WHERE challenge_id = i   (no condition on the old status)
update_challenge(i, s) == [challenges EXCEPT ![i].status = s]

\* the locals of the match handlers: the participants, the result of
\* calculate_new_ratings, the verdict of can_rank_change_occur, the row just read
NoData == [winner |-> NoUser, loser |-> NoUser, challenger |-> NoUser, challenged |-> NoUser,
           winner_change |-> 0, loser_change |-> 0, winner_old |-> 0, loser_old |-> 0,
           can_change |-> FALSE, elo |-> 0, wins |-> 0, losses |-> 0, games |-> 0]

\* timeouts: the prompts of the running interactive flow that ended without an answer
IdleLoc == [op |-> "none", user |-> NoUser, target |-> NoUser, ctype |-> "none",
            cid |-> 0, ids |-> {}, data |-> NoData, timeouts |-> 0]
NoRes == [op |-> "none", user |-> NoUser, cid |-> 0, ok |-> FALSE]

\* the handler p returns: ok is the success flag handed to the caller; res keeps
\* the successful results only
Return(p, ok, cid) ==
    /\ pc' = [pc EXCEPT ![p] = "idle"]
    /\ res' = [res EXCEPT ![p] = IF ok THEN [op |-> loc[p].op, user |-> loc[p].user, cid |-> cid, ok |-> TRUE]
                                  ELSE NoRes]
    /\ loc' = [loc EXCEPT ![p] = IdleLoc]

Goto(p, label) == pc' = [pc EXCEPT ![p] = label] /\ res' = [res EXCEPT ![p] = NoRes]

OtherTables == <<others, matches, nextMatchId, prcs, q, snap>>

\* a command arrives and is given to a free handler; the handlers are
\* interchangeable, so the second one is taken only while the first is busy
Starts(p) ==
    /\ pc[p] = "idle"
    /\ p = "h2" => pc["h1"] # "idle"

InFlightCreates == Cardinality({p \in Procs : loc[p].op = "create"})

\* DatabaseQueries._can_challenge_rank / RankingSystem.can_user_challenge_rank
CanChallengeRank(challengerRank, targetRank) ==
    /\ get_next_rank(challengerRank) # NoRank
    /\ targetRank = get_next_rank(challengerRank)

(* ChallengeSystem.create_challenge *)

\* entry: ensure_user_registered for both members (their Discord roles agree
\* with the stored rank here, so the role sync rewrites the same rank)
CreateStart(p, u, t, ty) ==
    /\ Starts(p)
    /\ Len(challenges) + InFlightCreates < MaxChallenges
    /\ t # u
    /\ loc' = [loc EXCEPT ![p] = [IdleLoc EXCEPT !.op = "create", !.user = u,
                                                 !.target = t, !.ctype = ty]]
    /\ Goto(p, IF t # NoUser THEN "cc_users" ELSE "create_count")
    /\ UNCHANGED <<users, challenges, activeTickets, now, OtherTables>>

\* can_user_challenge: both users are read; rank and 24 hour cooldown checks of a bm challenge
CanUserChallengeUsers(p) ==
    /\ pc[p] = "cc_users"
    /\ LET u == loc[p].user
           t == loc[p].target
           rankBad == ~CanChallengeRank(UserRank(u), UserRank(t))
           cooling == users[u].last_challenge # Null
                        /\ now - users[u].last_challenge < QueryCooldownTicks
       IN  IF loc[p].ctype = "bm" /\ (rankBad \/ cooling)
           THEN Return(p, FALSE, 0)
           ELSE Goto(p, "cc_select") /\ UNCHANGED loc
    /\ UNCHANGED <<users, challenges, activeTickets, now, OtherTables>>

\* can_user_challenge: the pending challenges between the two users that have no
\* ticket channel, or whose ticket is not in active_tickets, are collected as stale
CanUserChallengeSelect(p) ==
    /\ pc[p] = "cc_select"
    /\ LET existing == PendingBetween(loc[p].user, loc[p].target)
           stale == {i \in existing : \/ challenges[i].ticket = Null
                                      \/ ~TicketExists(challenges[i].ticket)}
       IN  /\ loc' = [loc EXCEPT ![p].ids = stale]
           /\ Goto(p, IF stale # {} THEN "cc_cleanup" ELSE "cc_count")
    /\ UNCHANGED <<users, challenges, activeTickets, now, OtherTables>>

\* can_user_challenge: UPDATE challenges SET status = "cancelled" WHERE challenge_id IN (stale)
CanUserChallengeCleanup(p) ==
    /\ pc[p] = "cc_cleanup"
    /\ challenges' = [i \in ChallengeIds |->
                        IF i \in loc[p].ids THEN [challenges[i] EXCEPT !.status = "cancelled"]
                        ELSE challenges[i]]
    /\ loc' = [loc EXCEPT ![p].ids = {}]
    /\ Goto(p, "cc_count")
    /\ UNCHANGED <<users, activeTickets, now, OtherTables>>

\* can_user_challenge: count of the challenges still active between the two users
CanUserChallengeCount(p) ==
    /\ pc[p] = "cc_count"
    /\ IF PendingBetween(loc[p].user, loc[p].target) # {}
       THEN Return(p, FALSE, 0)
       ELSE Goto(p, "create_count") /\ UNCHANGED loc
    /\ UNCHANGED <<users, challenges, activeTickets, now, OtherTables>>

\* create_challenge: SELECT COUNT(*) of the challenger's active challenges of this type
CreateCount(p) ==
    /\ pc[p] = "create_count"
    /\ IF PendingOfType(loc[p].user, loc[p].ctype) # {}
       THEN Return(p, FALSE, 0)
       ELSE Goto(p, IF loc[p].ctype = "bm" THEN "create_bm" ELSE "create_insert")
            /\ UNCHANGED loc
    /\ UNCHANGED <<users, challenges, activeTickets, now, OtherTables>>

\* _validate_bm_challenge: tier, 72 hour cooldown, rank of a named target
validate_bm_challenge(u, t) ==
    /\ users[u].tier \notin {"Evaluation", "Guest"}
    /\ ~(users[u].last_challenge # Null /\ now - users[u].last_challenge < BmCooldownTicks)
    /\ t # NoUser => CanChallengeRank(UserRank(u), UserRank(t))

CreateValidateBm(p) ==
    /\ pc[p] = "create_bm"
    /\ IF validate_bm_challenge(loc[p].user, loc[p].target)
       THEN Goto(p, "create_insert") /\ UNCHANGED loc
       ELSE Return(p, FALSE, 0)
    /\ UNCHANGED <<users, challenges, activeTickets, now, OtherTables>>

\* Database.create_challenge: INSERT INTO challenges, status defaults to 'pending'
NewChallenge(u, t, ty) ==
    [challenger |-> u, challenged |-> t, ctype |-> ty, status |-> "pending",
     expires |-> now + ChallengeTimeoutTicks, ticket |-> Null]

CreateInsert(p) ==
    /\ pc[p] = "create_insert"
    /\ challenges' = Append(challenges, NewChallenge(loc[p].user, loc[p].target, loc[p].ctype))
    /\ IF loc[p].ctype = "bm"
       THEN /\ loc' = [loc EXCEPT ![p].cid = Len(challenges) + 1]
            /\ Goto(p, "create_cooldown")
       ELSE Return(p, TRUE, Len(challenges) + 1)
    /\ UNCHANGED <<users, activeTickets, now, OtherTables>>

\* UserSystem.update_challenge_cooldown after a bm challenge was inserted
CreateCooldown(p) ==
    /\ pc[p] = "create_cooldown"
    /\ users' = [users EXCEPT ![loc[p].user].last_challenge = now]
    /\ Return(p, TRUE, loc[p].cid)
    /\ UNCHANGED <<challenges, activeTickets, now, OtherTables>>

(* DuelWorkflows.process_challenge_acceptance and ChallengeSystem.accept_challenge *)

may_respond_anyone(c, u) == TRUE
\* accept_challenge, decline_challenge: not (challenge['challenged_id'] and challenge['challenged_id'] != member.id)
may_respond(c, u) == ~(c.challenged # NoUser /\ c.challenged # u)

\* SQL of _validate_ticket_creation: at most 3 active official tickets per person,
\* no active ticket between the same two players
TicketsOf(u, ty) ==
    {t \in activeTickets : /\ t.challenger = u \/ t.challenged = u
                           /\ t.duel_type = ty
                           /\ t.status = "active"}

validate_ticket_creation(a, b, ty) ==
    /\ ty = "official" => /\ Cardinality(TicketsOf(a, "official")) < 3
                          /\ Cardinality(TicketsOf(b, "official")) < 3
    /\ ~\E t \in activeTickets :
            /\ \/ t.challenger = a /\ t.challenged = b
               \/ t.challenger = b /\ t.challenged = a
            /\ t.status = "active"

\* entry of the workflow: get_challenge(challenge_id); the challenger and the
\* type read here are the ones the ticket is validated and created with
AcceptStart(p, u, i) ==
    /\ Starts(p)
    /\ i \in ChallengeIds
    /\ loc' = [loc EXCEPT ![p] = [IdleLoc EXCEPT !.op = "accept", !.user = u, !.cid = i,
                                     !.target = challenges[i].challenger,
                                     !.ctype = challenges[i].ctype]]
    /\ Goto(p, "aw_validate")
    /\ UNCHANGED <<users, challenges, activeTickets, now, OtherTables>>

AcceptValidateTicket(p) ==
    /\ pc[p] = "aw_validate"
    /\ IF validate_ticket_creation(loc[p].target, loc[p].user, loc[p].ctype)
       THEN Goto(p, "ac_get") /\ UNCHANGED loc
       ELSE Return(p, FALSE, loc[p].cid)
    /\ UNCHANGED <<users, challenges, activeTickets, now, OtherTables>>

\* accept_challenge: get_challenge, then the status, expiry and accepter checks
AcceptGet(p) ==
    /\ pc[p] = "ac_get"
    /\ LET c == challenges[loc[p].cid]
           a == loc[p].user
       IN  IF c.status # "pending" THEN Return(p, FALSE, loc[p].cid)
           ELSE IF PastExpiry(c) THEN Goto(p, "ac_expire") /\ UNCHANGED loc
           ELSE IF ~may_respond(c, a) THEN Return(p, FALSE, loc[p].cid)
           ELSE IF c.challenger = a THEN Return(p, FALSE, loc[p].cid)
           ELSE Goto(p, IF c.ctype = "bm" THEN "ac_bm" ELSE "ac_update") /\ UNCHANGED loc
    /\ UNCHANGED <<users, challenges, activeTickets, now, OtherTables>>

\* accept_challenge: update_challenge(challenge_id, status='expired'), then "Challenge has expired"
AcceptExpire(p) ==
    /\ pc[p] = "ac_expire"
    /\ challenges' = update_challenge(loc[p].cid, "expired")
    /\ Return(p, FALSE, loc[p].cid)
    /\ UNCHANGED <<users, activeTickets, now, OtherTables>>

\* accept_challenge: a bm challenge is validated again against the ranks stored now
AcceptValidateBm(p) ==
    /\ pc[p] = "ac_bm"
    /\ IF CanChallengeRank(UserRank(loc[p].target), UserRank(loc[p].user))
       THEN Goto(p, "ac_update") /\ UNCHANGED loc
       ELSE Return(p, FALSE, loc[p].cid)
    /\ UNCHANGED <<users, challenges, activeTickets, now, OtherTables>>

\* accept_challenge: update_challenge(status='accepted', challenged_id=accepter.id, ...)
AcceptUpdate(p) ==
    /\ pc[p] = "ac_update"
    /\ challenges' = [challenges EXCEPT ![loc[p].cid].status = "accepted",
                                        ![loc[p].cid].challenged = loc[p].user]
    /\ Goto(p, "aw_ticket") /\ UNCHANGED loc
    /\ UNCHANGED <<users, activeTickets, now, OtherTables>>

FreshChannel == Cardinality(activeTickets) + 1

\* create_duel_ticket: validated again; the channel creation is a Discord call that
\* may fail.  The workflow reports success in either case: the challenge is accepted.
AcceptTicket(p) ==
    /\ pc[p] = "aw_ticket"
    /\ \/ /\ validate_ticket_creation(loc[p].target, loc[p].user, loc[p].ctype)
          /\ activeTickets' = activeTickets \cup
                {[channel |-> FreshChannel, challenger |-> loc[p].target,
                  challenged |-> loc[p].user, duel_type |-> loc[p].ctype,
                  challenge_id |-> loc[p].cid, status |-> "active"]}
          /\ loc' = [loc EXCEPT ![p].ids = {FreshChannel}]
          /\ Goto(p, "aw_setticket")
       \/ /\ Return(p, TRUE, loc[p].cid)
          /\ UNCHANGED activeTickets
    /\ UNCHANGED <<users, challenges, now, OtherTables>>

\* update_challenge(challenge_id, ticket_channel_id=ticket_channel.id)
AcceptSetTicket(p) ==
    /\ pc[p] = "aw_setticket"
    /\ \E ch \in loc[p].ids :
         challenges' = [challenges EXCEPT ![loc[p].cid].ticket = ch]
    /\ Return(p, TRUE, loc[p].cid)
    /\ UNCHANGED <<users, activeTickets, now, OtherTables>>

(* ChallengeSystem.decline_challenge *)

DeclineStart(p, u, i) ==
    /\ Starts(p)
    /\ i \in ChallengeIds
    /\   LET c == challenges[i]
         IN  IF \/ c.status # "pending"
                \/ ~may_respond(c, u)
                \/ c.challenger = u
             THEN /\ res' = [res EXCEPT ![p] = NoRes]
                  /\ UNCHANGED <<pc, loc>>
             ELSE /\ pc' = [pc EXCEPT ![p] = "dc_update"]
                  /\ loc' = [loc EXCEPT ![p] = [IdleLoc EXCEPT !.op = "decline", !.user = u, !.cid = i]]
                  /\ res' = [res EXCEPT ![p] = NoRes]
    /\ UNCHANGED <<users, challenges, activeTickets, now, OtherTables>>

DeclineUpdate(p) ==
    /\ pc[p] = "dc_update"
    /\ challenges' = update_challenge(loc[p].cid, "declined")
    /\ Return(p, TRUE, loc[p].cid)
    /\ UNCHANGED <<users, activeTickets, now, OtherTables>>

(* ChallengeSystem.cancel_challenge *)

CancelStart(p, u, i) ==
    /\ Starts(p)
    /\ i \in ChallengeIds
    /\   LET c == challenges[i]
         IN  IF c.challenger # u \/ c.status # "pending"
             THEN /\ res' = [res EXCEPT ![p] = NoRes]
                  /\ UNCHANGED <<pc, loc>>
             ELSE /\ pc' = [pc EXCEPT ![p] = "cn_update"]
                  /\ loc' = [loc EXCEPT ![p] = [IdleLoc EXCEPT !.op = "cancel", !.user = u, !.cid = i]]
                  /\ res' = [res EXCEPT ![p] = NoRes]
    /\ UNCHANGED <<users, challenges, activeTickets, now, OtherTables>>

CancelUpdate(p) ==
    /\ pc[p] = "cn_update"
    /\ challenges' = update_challenge(loc[p].cid, "cancelled")
    /\ Return(p, TRUE, loc[p].cid)
    /\ UNCHANGED <<users, activeTickets, now, OtherTables>>

(* DuelCommands.duel_cancel: the `duel cancel` command *)

Max(S) == CHOOSE x \in S : \A y \in S : y <= x

\* get_active_challenges_for_user, filtered to the caller's own pending challenges
DuelCancelStart(p, u) ==
    /\ Starts(p)
    /\   LET own == {i \in get_active_challenges(u) : challenges[i].challenger = u}
         IN  IF own = {}
             THEN /\ res' = [res EXCEPT ![p] = NoRes]
                  /\ UNCHANGED <<pc, loc>>
             ELSE /\ loc' = [loc EXCEPT ![p] = [IdleLoc EXCEPT !.op = "duel_cancel", !.user = u, !.ids = own]]
                  /\ pc' = [pc EXCEPT ![p] = IF Cardinality(own) = 1 THEN "dcmd_update" ELSE "dcmd_menu"]
                  /\ res' = [res EXCEPT ![p] = NoRes]
    /\ UNCHANGED <<users, challenges, activeTickets, now, OtherTables>>

\* several challenges: the reaction menu; the user picks one, picks "cancel all", or lets it time out
DuelCancelMenu(p) ==
    /\ pc[p] = "dcmd_menu"
    /\ \/ Return(p, FALSE, 0)
       \/ Goto(p, "dcmd_update") /\ UNCHANGED loc
       \/ \E i \in loc[p].ids : loc' = [loc EXCEPT ![p].ids = {i}] /\ Goto(p, "dcmd_update")
    /\ UNCHANGED <<users, challenges, activeTickets, now, OtherTables>>

\* self.db.update_challenge(challenge_id, status='cancelled'), newest challenge first
DuelCancelUpdate(p) ==
    /\ pc[p] = "dcmd_update"
    /\ LET i == Max(loc[p].ids)
       IN  /\ challenges' = update_challenge(i, "cancelled")
           /\ IF loc[p].ids = {i}
              THEN Return(p, TRUE, i)
              ELSE loc' = [loc EXCEPT ![p].ids = @ \ {i}] /\ UNCHANGED <<pc, res>>
    /\ UNCHANGED <<users, activeTickets, now, OtherTables>>

(* DatabaseQueries.cleanup_expired_challenges: one UPDATE statement *)

\* a variant without the condition on the status
cleanup_any_status ==
    [i \in ChallengeIds |->
        IF challenges[i].expires <= now
        THEN [challenges[i] EXCEPT !.status = "expired"]
        ELSE challenges[i]]

\* UPDATE challenges SET status = 'expired' WHERE status = 'pending' AND expires_at <= datetime('now')
cleanup_expired_challenges ==
    [i \in ChallengeIds |->
        IF challenges[i].status = "pending" /\ challenges[i].expires <= now
        THEN [challenges[i] EXCEPT !.status = "expired"]
        ELSE challenges[i]]

CleanupExpired ==
    /\ challenges' = cleanup_expired_challenges
    /\ UNCHANGED <<users, activeTickets, now, pc, loc, res, OtherTables>>

\* nothing refers to the time before the first row exists: the clock starts there
Tick ==
    /\ now + ClockStep <= MaxWeeks * ClockStep
    /\ challenges # <<>>
    /\ now' = now + ClockStep
    /\ UNCHANGED <<users, challenges, activeTickets, pc, loc, res, OtherTables>>

-----------------------------------------------------------------------------
(* The challenge ledger as a system: two command handlers on the event loop *)

UserRow(r) == [tier |-> r.tier, numeral |-> r.numeral, elo_rating |-> 1000,
               wins |-> 0, losses |-> 0, games_played |-> 0,
               last_challenge |-> Null, is_active |-> TRUE]

NoOthers == [r \in LadderRanks |-> 0]
NoQuery == [winner |-> NoUser, loser |-> NoUser, outcome |-> "none", reason |-> "none"]
NoSnap == [mid |-> 0, rows |-> <<>>]

InitChallenge ==
    /\ users = (1 :> UserRow(Rank("Bronze", "IV")) @@ 2 :> UserRow(Rank("Bronze", "III"))
                @@ 3 :> UserRow(Rank("Bronze", "III")))
    /\ others = NoOthers
    /\ challenges = <<>>
    /\ activeTickets = {}
    /\ matches = <<>>
    /\ nextMatchId = 1
    /\ prcs = <<>>
    /\ now = 0
    /\ pc = [p \in Procs |-> "idle"]
    /\ loc = [p \in Procs |-> IdleLoc]
    /\ res = [p \in Procs |-> NoRes]
    /\ q = NoQuery
    /\ snap = NoSnap

\* the commands that arrive: user 1 issues official challenges, open or to user 2
Challengers == {1}
Targets == {NoUser, 2}

NextChallenge ==
    \/ \E p \in Procs, u \in Challengers, t \in Targets : CreateStart(p, u, t, "official")
    \/ \E p \in Procs : CanUserChallengeUsers(p)
    \/ \E p \in Procs : CanUserChallengeSelect(p)
    \/ \E p \in Procs : CanUserChallengeCleanup(p)
    \/ \E p \in Procs : CanUserChallengeCount(p)
    \/ \E p \in Procs : CreateCount(p)
    \/ \E p \in Procs : CreateInsert(p)
    \/ \E p \in Procs, u \in Targets \ {NoUser}, i \in 1..MaxChallenges : AcceptStart(p, u, i)
    \/ \E p \in Procs : AcceptValidateTicket(p)
    \/ \E p \in Procs : AcceptGet(p)
    \/ \E p \in Procs : AcceptExpire(p)
    \/ \E p \in Procs : AcceptUpdate(p)
    \/ \E p \in Procs : AcceptTicket(p)
    \/ \E p \in Procs : AcceptSetTicket(p)
    \/ \E p \in Procs, u \in Users, i \in 1..MaxChallenges : DeclineStart(p, u, i)
    \/ \E p \in Procs : DeclineUpdate(p)
    \/ \E p \in Procs, u \in Users, i \in 1..MaxChallenges : CancelStart(p, u, i)
    \/ \E p \in Procs : CancelUpdate(p)
    \/ \E p \in Procs, u \in Challengers : DuelCancelStart(p, u)
    \/ \E p \in Procs : DuelCancelMenu(p)
    \/ \E p \in Procs : DuelCancelUpdate(p)
    \/ CleanupExpired
    \/ Tick

SpecChallenge == InitChallenge /\ [][NextChallenge]_vars

(* Challenge creation alone: both challenge types, two handlers *)

NextCreate ==
    \/ \E p \in Procs, u \in Challengers, t \in Targets, ty \in ChallengeTypes : CreateStart(p, u, t, ty)
    \/ \E p \in Procs : CanUserChallengeUsers(p)
    \/ \E p \in Procs : CanUserChallengeSelect(p)
    \/ \E p \in Procs : CanUserChallengeCleanup(p)
    \/ \E p \in Procs : CanUserChallengeCount(p)
    \/ \E p \in Procs : CreateCount(p)
    \/ \E p \in Procs : CreateValidateBm(p)
    \/ \E p \in Procs : CreateInsert(p)
    \/ \E p \in Procs : CreateCooldown(p)
    \/ CleanupExpired
    \/ Tick

SpecCreate == InitChallenge /\ [][NextCreate]_vars

(* Acceptance of open challenges: user 1 issues them, users 2 and 3 accept *)

Accepters == {2, 3}

NextAccept ==
    \/ \E p \in Procs, u \in Challengers : CreateStart(p, u, NoUser, "official")
    \/ \E p \in Procs : CreateCount(p)
    \/ \E p \in Procs : CreateInsert(p)
    \/ \E p \in Procs, u \in Accepters, i \in 1..MaxChallenges : AcceptStart(p, u, i)
    \/ \E p \in Procs : AcceptValidateTicket(p)
    \/ \E p \in Procs : AcceptGet(p)
    \/ \E p \in Procs : AcceptExpire(p)
    \/ \E p \in Procs : AcceptUpdate(p)
    \/ \E p \in Procs : AcceptTicket(p)
    \/ \E p \in Procs : AcceptSetTicket(p)
    \/ CleanupExpired
    \/ Tick

SpecAccept == InitChallenge /\ [][NextAccept]_vars

-----------------------------------------------------------------------------
(* Properties of the challenge ledger *)

SameTriple(i, j) ==
    /\ challenges[i].challenger = challenges[j].challenger
    /\ challenges[i].challenged = challenges[j].challenged
    /\ challenges[i].ctype = challenges[j].ctype

Live(i) == challenges[i].status = "pending" /\ Unexpired(challenges[i])

\* C1: challenge creation is exclusive per (challenger, target-or-open, type): in no
\* reachable state do two pending (and unexpired) challenges exist for the same
\* challenger, the same target (or both open) and the same type.
C1_CreateExclusive ==
    \A i, j \in ChallengeIds : (i # j /\ Live(i) /\ Live(j)) => ~SameTriple(i, j)

AcceptedBy(p, i) == res[p].ok /\ res[p].op = "accept" /\ res[p].cid = i

\* C2: of two accept operations on the same pending challenge that interleave, at most
\* one returns success, and the challenged user recorded on the accepted challenge is
\* the accepter that was told so.
C2_OneAcceptSucceeds ==
    \A i \in ChallengeIds :
        /\ \A p1, p2 \in Procs : (AcceptedBy(p1, i) /\ AcceptedBy(p2, i)) => p1 = p2
        /\ \A p1 \in Procs : AcceptedBy(p1, i) => challenges[i].challenged = res[p1].user

Terminal == {"accepted", "declined", "expired", "cancelled"}

\* C3: the status of a challenge changes only from pending to accepted, declined,
\* expired or cancelled; a challenge in one of these four states keeps its status
\* in every step of every operation.
C3_TerminalIsFinal ==
    [][\A i \in ChallengeIds :
          /\ challenges'[i].status # challenges[i].status => challenges[i].status = "pending"
          /\ challenges'[i].status \in Terminal \cup {"pending"}]_vars

-----------------------------------------------------------------------------
(* Ratings: EloSystem, MatchSystem.record_official_match, UserSystem.update_user_stats,
   AdminCommands._void_match_operation *)

starting_elo == 1000
k_factor_new == 32
k_factor_established == 16
new_player_threshold == 10

\* round(k_factor * (1 - expected_winner)) with expected_winner = 1 / (1 + 10^((loser - winner) / 400))
\* falls as the difference winner - loser grows.  Entry v of a table is the largest
\* difference winner_elo - loser_elo for which the rounded value is still >= v
\* (evaluated with the Python expression in floating point, for k_factor 32 and 16).
ELO_STEPS_NEW ==
    <<719, 523, 428, 364, 314, 273, 237, 205, 176, 149, 124, 100, 77, 54, 32, 10,
      -11, -33, -55, -78, -101, -125, -150, -177, -206, -238, -274, -315, -365, -429, -524, -720>>

ELO_STEPS_ESTABLISHED ==
    <<596, 394, 292, 221, 162, 112, 65, 21, -22, -66, -113, -163, -222, -293, -395, -597>>

k_factor_of_upto(games) == IF games <= new_player_threshold THEN k_factor_new ELSE k_factor_established
\* k_factor_new if games < new_player_threshold else k_factor_established
k_factor_of(games) == IF games < new_player_threshold THEN k_factor_new ELSE k_factor_established

\* a variant in which each player's change is computed with the player's own k_factor
calculate_elo_change_own_k(winner_elo, loser_elo, winner_games, loser_games) ==
    LET steps_of(k) == IF k = k_factor_new THEN ELO_STEPS_NEW ELSE ELO_STEPS_ESTABLISHED
        change(k) == Cardinality({v \in 1..Len(steps_of(k)) : winner_elo - loser_elo <= steps_of(k)[v]})
    IN  [winner_change |-> change(k_factor_of(winner_games)),
         loser_change |-> 0 - change(k_factor_of(loser_games))]
\* calculate_elo_change: one k_factor for both players, the larger of the two
calculate_elo_change(winner_elo, loser_elo, winner_games, loser_games) ==
    LET k_winner == k_factor_of(winner_games)
        k_loser == k_factor_of(loser_games)
        k_factor == IF k_winner >= k_loser THEN k_winner ELSE k_loser
        steps == IF k_factor = k_factor_new THEN ELO_STEPS_NEW ELSE ELO_STEPS_ESTABLISHED
        winner_change == Cardinality({v \in 1..Len(steps) : winner_elo - loser_elo <= steps[v]})
    IN  [winner_change |-> winner_change, loser_change |-> 0 - winner_change]

MatchIds == DOMAIN matches

\* create_match: loser_id is derived from the participants and the winner
MatchRow(d, mtype) ==
    [challenger_id |-> d.challenger, challenged_id |-> d.challenged,
     winner_id |-> d.winner,
     loser_id |-> IF d.winner = d.challenger THEN d.challenged ELSE d.challenger,
     match_type |-> mtype,
     elo_change_winner |-> d.winner_change, elo_change_loser |-> d.loser_change,
     winner_elo_before |-> d.winner_old, loser_elo_before |-> d.loser_old,
     winner_elo_after |-> d.winner_old + d.winner_change,
     loser_elo_after |-> d.loser_old + d.loser_change,
     rank_change |-> d.can_change]

\* record_official_match / record_bm_match: get_user of winner and loser, calculate_new_ratings
RecordStart(p, c, d, w, mtype) ==
    /\ Starts(p)
    /\ nextMatchId <= MaxMatches
    /\ c # d /\ w \in {c, d}
    /\ LET l == IF w = c THEN d ELSE c
           e == calculate_elo_change(users[w].elo_rating, users[l].elo_rating,
                                     users[w].games_played, users[l].games_played)
       IN  loc' = [loc EXCEPT ![p] =
                     [IdleLoc EXCEPT !.op = "record", !.ctype = mtype,
                        !.data = [NoData EXCEPT !.winner = w, !.loser = l,
                                     !.challenger = c, !.challenged = d,
                                     !.winner_change = e.winner_change,
                                     !.loser_change = e.loser_change,
                                     !.winner_old = users[w].elo_rating,
                                     !.loser_old = users[l].elo_rating]]]
    /\ Goto(p, IF mtype = "bm" THEN "rm_rank" ELSE "rm_insert")
    /\ snap' = [mid |-> 0, rows |-> users]
    /\ UNCHANGED <<users, others, challenges, activeTickets, matches, nextMatchId, prcs, now, q>>

\* Database.create_match
RecordInsert(p) ==
    /\ pc[p] = "rm_insert"
    /\ matches' = matches @@ (nextMatchId :> MatchRow(loc[p].data, loc[p].ctype))
    /\ nextMatchId' = nextMatchId + 1
    /\ loc' = [loc EXCEPT ![p].cid = nextMatchId]
    /\ snap' = [snap EXCEPT !.mid = nextMatchId]
    /\ Goto(p, "rm_wread")
    /\ UNCHANGED <<users, others, challenges, activeTickets, prcs, now, q>>

\* update_user_stats: user = await self.db.get_user(user_id)
UpdateStatsRead(p) ==
    /\ pc[p] \in {"rm_wread", "rm_lread"}
    /\ LET u == IF pc[p] = "rm_wread" THEN loc[p].data.winner ELSE loc[p].data.loser
       IN  loc' = [loc EXCEPT ![p].data.elo = users[u].elo_rating,
                              ![p].data.wins = users[u].wins,
                              ![p].data.losses = users[u].losses,
                              ![p].data.games = users[u].games_played]
    /\ Goto(p, IF pc[p] = "rm_wread" THEN "rm_wwrite" ELSE "rm_lwrite")
    /\ UNCHANGED <<users, challenges, activeTickets, now, OtherTables>>

max0(x) == IF x < 0 THEN 0 ELSE x

\* update_user_stats: the new values are computed from the row read and written with update_user
update_user_stats(row, d, won) ==
    [row EXCEPT !.wins = d.wins + (IF won THEN 1 ELSE 0),
                !.losses = d.losses + (IF won THEN 0 ELSE 1),
                !.games_played = d.games + 1,
                !.elo_rating = max0(d.elo + (IF won THEN d.winner_change ELSE d.loser_change))]

UpdateStatsWriteWinner(p) ==
    /\ pc[p] = "rm_wwrite"
    /\ users' = [users EXCEPT ![loc[p].data.winner] = update_user_stats(@, loc[p].data, TRUE)]
    /\ Goto(p, "rm_lread") /\ UNCHANGED loc
    /\ UNCHANGED <<challenges, activeTickets, now, OtherTables>>

\* after the loser's row: an official match is done; a bm match whose rank change
\* is possible goes on to create_pending_rank_change
UpdateStatsWriteLoser(p) ==
    /\ pc[p] = "rm_lwrite"
    /\ users' = [users EXCEPT ![loc[p].data.loser] = update_user_stats(@, loc[p].data, FALSE)]
    /\ IF loc[p].data.can_change
       THEN Goto(p, "rm_prc") /\ UNCHANGED loc
       ELSE Return(p, TRUE, loc[p].cid)
    /\ UNCHANGED <<challenges, activeTickets, now, OtherTables>>

\* _void_match_operation: SELECT * FROM matches WHERE match_id = ?
VoidStart(p, m) ==
    /\ Starts(p)
    /\ IF m \notin MatchIds
       THEN /\ res' = [res EXCEPT ![p] = NoRes]
            /\ UNCHANGED <<pc, loc>>
       ELSE /\ loc' = [loc EXCEPT ![p] =
                         [IdleLoc EXCEPT !.op = "void", !.cid = m,
                            !.data = [NoData EXCEPT !.winner = matches[m].winner_id,
                                         !.loser = matches[m].loser_id,
                                         !.winner_change = matches[m].elo_change_winner,
                                         !.loser_change = matches[m].elo_change_loser]]]
            /\ Goto(p, "vd_apply")
    /\ snap' = IF snap.mid = m /\ m \in MatchIds THEN snap ELSE NoSnap
    /\ UNCHANGED <<users, others, challenges, activeTickets, matches, nextMatchId, prcs, now, q>>

\* the two relative UPDATEs of users and the DELETE of the match, committed together
void_user(row, change, won) ==
    [row EXCEPT !.elo_rating = @ - change,
                !.wins = @ - (IF won THEN 1 ELSE 0),
                !.losses = @ - (IF won THEN 0 ELSE 1),
                !.games_played = @ - 1]

VoidApply(p) ==
    /\ pc[p] = "vd_apply"
    /\ LET d == loc[p].data
           afterWinner == [users EXCEPT ![d.winner] = void_user(@, d.winner_change, TRUE)]
       IN  users' = [afterWinner EXCEPT ![d.loser] = void_user(@, d.loser_change, FALSE)]
    /\ matches' = [m \in MatchIds \ {loc[p].cid} |-> matches[m]]
    /\ Return(p, TRUE, loc[p].cid)
    /\ UNCHANGED <<others, challenges, activeTickets, nextMatchId, prcs, now, q, snap>>

(* Official matches and voids, one command at a time *)

\* the users a match starts from: a new player, and established players whose
\* rating has fallen to or near the floor
Profiles ==
    {[elo_rating |-> starting_elo, wins |-> 0, losses |-> 0, games_played |-> 0],
     [elo_rating |-> 5, wins |-> 10, losses |-> 60, games_played |-> 70],
     [elo_rating |-> 0, wins |-> 10, losses |-> 70, games_played |-> 80]}

ProfileRow(f) ==
    [UserRow(Rank("Bronze", "IV")) EXCEPT !.elo_rating = f.elo_rating, !.wins = f.wins,
                                         !.losses = f.losses, !.games_played = f.games_played]

InitRating ==
    /\ users \in [Users -> {ProfileRow(f) : f \in Profiles}]
    /\ others = NoOthers
    /\ challenges = <<>>
    /\ activeTickets = {}
    /\ matches = <<>>
    /\ nextMatchId = 1
    /\ prcs = <<>>
    /\ now = 0
    /\ pc = [p \in Procs |-> "idle"]
    /\ loc = [p \in Procs |-> IdleLoc]
    /\ res = [p \in Procs |-> NoRes]
    /\ q = NoQuery
    /\ snap = NoSnap

NextRating ==
    \/ \E c, d, w \in Users : RecordStart("h1", c, d, w, "official")
    \/ RecordInsert("h1")
    \/ UpdateStatsRead("h1")
    \/ UpdateStatsWriteWinner("h1")
    \/ UpdateStatsWriteLoser("h1")
    \/ \E m \in 1..MaxMatches : VoidStart("h1", m)
    \/ VoidApply("h1")

SpecRating == InitRating /\ [][NextRating]_vars

Stats(row) == <<row.elo_rating, row.wins, row.losses, row.games_played>>

Returned(p, op) == pc[p] = "idle" /\ res[p].ok /\ res[p].op = op

\* C4: recording a match m from user rows with ratings of 0 or more and then
\* immediately voiding m leaves the rating, wins, losses and games played of
\* every user exactly as they were before m was recorded.
C4_VoidRestores ==
    \A p \in Procs :
        (Returned(p, "void") /\ snap.mid = res[p].cid) =>
            \A u \in Users : Stats(users[u]) = Stats(snap.rows[u])

\* C5: recording a match creates and destroys no rating points: once the record
\* command has returned, the two participants' stored ratings add up to what
\* they added up to before the match.
C5_RecordZeroSum ==
    \A p \in Procs :
        (Returned(p, "record") /\ res[p].cid \in MatchIds) =>
            LET m == matches[res[p].cid]
            IN  users[m.winner_id].elo_rating + users[m.loser_id].elo_rating
                    = m.winner_elo_before + m.loser_elo_before

\* C6: after any sequence of match recordings and match voids every stored
\* rating is 0 or more.
C6_RatingFloor == \A u \in Users : users[u].elo_rating >= 0

-----------------------------------------------------------------------------
(* Rank ladder: RankingSystem.can_rank_change_occur, DatabaseQueries.get_rank_capacity_info,
   MatchSystem.record_bm_match, the pending rank change operations *)

\* SELECT COUNT(*) FROM users WHERE tier = ? AND rank_numeral = ? AND is_active = TRUE
current_count(r) ==
    others[r] + Cardinality({u \in Users : UserRank(u) = r /\ users[u].is_active})

capacity(r) == RANK_CAPACITY[r.tier][r.numeral]

is_full_above(count, cap) == count > cap
\* get_rank_capacity_info: 'is_full': current_count >= capacity
is_full(count, cap) == count >= cap

\* can_rank_change_occur: loser_new_tier = winner_tier, loser_new_numeral = winner_numeral
loser_new_rank(winner_rank, loser_rank) == winner_rank

Verdict(w, l, outcome, reason, rank) ==
    [winner |-> w, loser |-> l, outcome |-> outcome, reason |-> reason, rank |-> rank]

\* can_rank_change_occur(winner_id, loser_id).  RANK_STRUCTURE has no entry for
\* Guest and Evaluation: get_rank_capacity_info raises KeyError for such a rank.
can_rank_change_occur(w, l) ==
    LET wr == UserRank(w)
        lr == UserRank(l)
        dest == loser_new_rank(wr, lr)
    IN  IF ~is_rank_above(lr, wr)
        THEN Verdict(w, l, "false", "Winner's rank is not directly below loser's rank", NoRank)
        ELSE IF lr \notin LadderRanks \/ dest \notin LadderRanks
        THEN Verdict(w, l, "raise", "KeyError", NoRank)
        ELSE IF is_full(current_count(dest), capacity(dest))
        THEN Verdict(w, l, "false", "No space available in", dest)
        ELSE Verdict(w, l, "true", "Rank change is valid", NoRank)

\* a call of can_rank_change_occur on its own
CanRankChangeOccur(w, l) ==
    /\ w # l
    /\ q' = can_rank_change_occur(w, l)
    /\ UNCHANGED <<users, others, challenges, activeTickets, matches, nextMatchId, prcs,
                   now, pc, loc, res, snap>>

\* record_bm_match: can_rank_change_occur before the match row is written; an
\* exception ends the command in its except branch
RecordRankCheck(p) ==
    /\ pc[p] = "rm_rank"
    /\ LET v == can_rank_change_occur(loc[p].data.winner, loc[p].data.loser)
       IN  /\ q' = v
           /\ IF v.outcome = "raise"
              THEN Return(p, FALSE, 0)
              ELSE /\ loc' = [loc EXCEPT ![p].data.can_change = (v.outcome = "true")]
                   /\ Goto(p, "rm_insert")
    /\ UNCHANGED <<users, others, challenges, activeTickets, matches, nextMatchId, prcs, now, snap>>

\* what a caller sees of an operation that raised
Raised(op, id) == [op |-> op, user |-> NoUser, cid |-> id, ok |-> FALSE]

\* create_pending_rank_change: `async with self.db.get_connection() as db` is handed
\* a coroutine, which is no asynchronous context manager: TypeError before any
\* statement runs.  record_bm_match catches it and returns "Error recording match";
\* the match row and the two users' statistics are already written.
CreatePendingRankChange(p) ==
    /\ pc[p] = "rm_prc"
    /\ pc' = [pc EXCEPT ![p] = "idle"]
    /\ res' = [res EXCEPT ![p] = Raised("record", loc[p].cid)]
    /\ loc' = [loc EXCEPT ![p] = IdleLoc]
    /\ UNCHANGED <<users, challenges, activeTickets, now, OtherTables>>

\* confirm_rank_change: the same `async with` on a coroutine; nothing is read or written
ConfirmRankChange(p, id) ==
    /\ Starts(p)
    /\ res' = [res EXCEPT ![p] = Raised("confirm", id)]
    /\ UNCHANGED <<users, challenges, activeTickets, now, pc, loc, OtherTables>>

\* reject_rank_change: the same `async with` on a coroutine; nothing is read or written
RejectRankChange(p, id) ==
    /\ Starts(p)
    /\ res' = [res EXCEPT ![p] = Raised("reject", id)]
    /\ UNCHANGED <<users, challenges, activeTickets, now, pc, loc, OtherTables>>

(* The ladder as a system: users 1 to 3 on chosen ranks among anonymous members *)

RankChoices == {GuestRank, Rank("Bronze", "IV"), Rank("Bronze", "III"), Rank("Diamond", "I")}

\* the other active members: Bronze IV and Bronze III empty, nearly full or full
OthersChoices ==
    {[r \in LadderRanks |-> IF r = Rank("Bronze", "IV") THEN a
                            ELSE IF r = Rank("Bronze", "III") THEN b ELSE 0] :
        a \in {0, capacity(Rank("Bronze", "IV")) - 2, capacity(Rank("Bronze", "IV")) - 1},
        b \in {0, capacity(Rank("Bronze", "III")) - 1}}

WithinCapacity == \A r \in LadderRanks : current_count(r) <= capacity(r)

InitRank ==
    /\ users \in [Users -> {UserRow(r) : r \in RankChoices}]
    /\ others \in OthersChoices
    /\ WithinCapacity
    /\ challenges = <<>>
    /\ activeTickets = {}
    /\ matches = <<>>
    /\ nextMatchId = 1
    /\ prcs = <<>>
    /\ now = 0
    /\ pc = [p \in Procs |-> "idle"]
    /\ loc = [p \in Procs |-> IdleLoc]
    /\ res = [p \in Procs |-> NoRes]
    /\ q = NoQuery
    /\ snap = NoSnap

NextRank ==
    \/ \E w, l \in Users : CanRankChangeOccur(w, l)
    \/ \E w \in {1, 2} : RecordStart("h1", 1, 2, w, "bm")
    \/ RecordRankCheck("h1")
    \/ RecordInsert("h1")
    \/ UpdateStatsRead("h1")
    \/ UpdateStatsWriteWinner("h1")
    \/ UpdateStatsWriteLoser("h1")
    \/ CreatePendingRankChange("h1")
    \/ \E id \in 1..MaxMatches : ConfirmRankChange("h1", id)
    \/ \E id \in 1..MaxMatches : RejectRankChange("h1", id)

SpecRank == InitRank /\ [][NextRank]_vars

\* occupancy of rank r once w and l have exchanged their ranks
PostSwapCount(r, w, l) ==
    others[r] + Cardinality({u \in Users :
        /\ users[u].is_active
        /\ (IF u = w THEN UserRank(l) ELSE IF u = l THEN UserRank(w) ELSE UserRank(u)) = r})

OverFilled(r, w, l) == r \in LadderRanks /\ PostSwapCount(r, w, l) > capacity(r)

Asked == q.outcome # "none"

\* C7: can_rank_change_occur answers true if and only if the loser's rank
\* is exactly the next rank above the winner's and, with occupancy counted after
\* the two users swap ranks, neither destination rank holds more users than its capacity.
C7_TrueIffSwapFits ==
    Asked =>
        ((q.outcome = "true") <=>
            /\ UserRank(q.loser) = get_next_rank(UserRank(q.winner))
            /\ ~OverFilled(UserRank(q.winner), q.winner, q.loser)
            /\ ~OverFilled(UserRank(q.loser), q.winner, q.loser))

BronzeFullCase ==
    /\ Asked
    /\ UserRank(q.winner) = Rank("Bronze", "IV")
    /\ UserRank(q.loser) = Rank("Bronze", "III")
    /\ PostSwapCount(Rank("Bronze", "IV"), q.winner, q.loser) >= capacity(Rank("Bronze", "IV"))

\* C8: with the winner at Bronze IV, the loser at Bronze III and Bronze IV full in
\* the post-swap state, can_rank_change_occur answers false and its reason names
\* the full destination rank, Bronze IV.
C8_FullBronzeRefused ==
    BronzeFullCase =>
        /\ q.outcome = "false"
        /\ q.reason = "No space available in"
        /\ q.rank = Rank("Bronze", "IV")

\* C8 witness: the question was asked with Bronze IV full and was refused
C8_FullBronzeAsked == BronzeFullCase /\ q.outcome = "false"

-----------------------------------------------------------------------------
(* Challenges issued again: one handler, so every command is issued after the
   previous one has returned *)

NextReissue ==
    \/ \E u \in Challengers, t \in Targets, ty \in ChallengeTypes : CreateStart("h1", u, t, ty)
    \/ CanUserChallengeUsers("h1")
    \/ CanUserChallengeSelect("h1")
    \/ CanUserChallengeCleanup("h1")
    \/ CanUserChallengeCount("h1")
    \/ CreateCount("h1")
    \/ CreateValidateBm("h1")
    \/ CreateInsert("h1")
    \/ CreateCooldown("h1")
    \/ CleanupExpired
    \/ Tick

SpecReissue == InitChallenge /\ [][NextReissue]_vars

\* the pending challenges that the create command of handler p repeats (the row
\* the command has inserted itself is not one of them)
Repeated(p) ==
    {i \in ChallengeIds :
        /\ Live(i)
        /\ i # loc[p].cid
        /\ loc[p].target # NoUser
        /\ challenges[i].challenger = loc[p].user
        /\ challenges[i].challenged = loc[p].target
        /\ challenges[i].ctype = loc[p].ctype}

\* C11: while the user has a pending challenge of type T to user X, no step of a
\* command issuing the same challenge again modifies that challenge, inserts a
\* row or returns success: the first challenge stays pending and unmodified and
\* the second command fails.
C11_ReissueRefused ==
    [][\A p \in Procs :
          (loc[p].op = "create" /\ pc'[p] # pc[p] /\ Repeated(p) # {}) =>
              /\ \A i \in Repeated(p) : challenges'[i] = challenges[i]
              /\ Len(challenges') = Len(challenges)
              /\ ~res'[p].ok]_vars

-----------------------------------------------------------------------------
(* Cancellation: users 1 and 2 challenge each other and cancel, one command at a time *)

Issuers == {1, 2}

NextCancel ==
    \/ \E u \in Issuers, t \in Issuers \cup {NoUser}, ty \in ChallengeTypes : CreateStart("h1", u, t, ty)
    \/ CanUserChallengeUsers("h1")
    \/ CanUserChallengeSelect("h1")
    \/ CanUserChallengeCleanup("h1")
    \/ CanUserChallengeCount("h1")
    \/ CreateCount("h1")
    \/ CreateValidateBm("h1")
    \/ CreateInsert("h1")
    \/ CreateCooldown("h1")
    \/ \E u \in Users, i \in 1..MaxChallenges : CancelStart("h1", u, i)
    \/ CancelUpdate("h1")
    \/ \E u \in Issuers : DuelCancelStart("h1", u)
    \/ DuelCancelMenu("h1")
    \/ DuelCancelUpdate("h1")
    \/ CleanupExpired
    \/ Tick

SpecCancel == InitChallenge /\ [][NextCancel]_vars

\* handler p takes this step as part of a cancel request of user u
CancelStepOf(p, u) ==
    /\ loc[p].op \in {"cancel", "duel_cancel"}
    /\ loc[p].user = u
    /\ pc'[p] # pc[p] \/ loc'[p] # loc[p]

\* C12: a challenge goes from pending to cancelled only in a step of a cancel
\* request made by its own challenger; no other action, of this or of any other
\* user, causes that transition.
C12_CancelledByChallengerOnly ==
    [][\A i \in ChallengeIds :
          (challenges[i].status = "pending" /\ challenges'[i].status = "cancelled") =>
              \E p \in Procs : CancelStepOf(p, challenges[i].challenger)]_vars

-----------------------------------------------------------------------------
(* Responses: user 1 challenges user 2 or everybody; users 2 and 3 accept and decline *)

NextRespond ==
    \/ \E p \in Procs, u \in Challengers, t \in Targets : CreateStart(p, u, t, "official")
    \/ \E p \in Procs : CanUserChallengeUsers(p)
    \/ \E p \in Procs : CanUserChallengeSelect(p)
    \/ \E p \in Procs : CanUserChallengeCleanup(p)
    \/ \E p \in Procs : CanUserChallengeCount(p)
    \/ \E p \in Procs : CreateCount(p)
    \/ \E p \in Procs : CreateInsert(p)
    \/ \E p \in Procs, u \in Accepters, i \in 1..MaxChallenges : AcceptStart(p, u, i)
    \/ \E p \in Procs : AcceptValidateTicket(p)
    \/ \E p \in Procs : AcceptGet(p)
    \/ \E p \in Procs : AcceptExpire(p)
    \/ \E p \in Procs : AcceptUpdate(p)
    \/ \E p \in Procs : AcceptTicket(p)
    \/ \E p \in Procs : AcceptSetTicket(p)
    \/ \E p \in Procs, u \in Accepters, i \in 1..MaxChallenges : DeclineStart(p, u, i)
    \/ \E p \in Procs : DeclineUpdate(p)
    \/ CleanupExpired
    \/ Tick

SpecRespond == InitChallenge /\ [][NextRespond]_vars

\* challenge i is pending and names a target other than user u
NamesOther(i, u) ==
    /\ i \in ChallengeIds
    /\ challenges[i].status = "pending"
    /\ challenges[i].challenged \notin {NoUser, u}

\* handler p takes this step as part of an accept or decline of a challenge
\* that names somebody else
OutsiderStep(p) ==
    /\ loc[p].op \in {"accept", "decline"}
    /\ pc'[p] # pc[p]
    /\ NamesOther(loc[p].cid, loc[p].user)

\* a decline command gets past its checks only for the target or on an open challenge
DeclineAdmitted ==
    \A p \in Procs :
        (pc[p] = "idle" /\ pc'[p] = "dc_update") =>
            may_respond(challenges[loc'[p].cid], loc'[p].user)

-----------------------------------------------------------------------------
(* Promotion (bm) challenges while stored ranks follow the Discord roles *)

\* UserSystem.sync_discord_roles_to_database, run by ensure_user_registered at the
\* start of the member's commands: the rank read from the member's Discord roles
\* (which the administrators change in Discord) replaces the stored one
RoleSync(u, r) ==
    /\ UserRank(u) # r
    /\ users' = [users EXCEPT ![u].tier = r.tier, ![u].numeral = r.numeral]
    /\ UNCHANGED <<challenges, activeTickets, now, pc, loc, res, OtherTables>>

RoleChoices == {Rank("Bronze", "IV"), Rank("Bronze", "III")}

NextBm ==
    \/ \E u \in Challengers, t \in Targets : CreateStart("h1", u, t, "bm")
    \/ CanUserChallengeUsers("h1")
    \/ CanUserChallengeSelect("h1")
    \/ CanUserChallengeCount("h1")
    \/ CreateCount("h1")
    \/ CreateValidateBm("h1")
    \/ CreateInsert("h1")
    \/ CreateCooldown("h1")
    \/ \E u \in Accepters, i \in 1..MaxChallenges : AcceptStart("h1", u, i)
    \/ AcceptValidateTicket("h1")
    \/ AcceptGet("h1")
    \/ AcceptExpire("h1")
    \/ AcceptValidateBm("h1")
    \/ AcceptUpdate("h1")
    \/ AcceptTicket("h1")
    \/ AcceptSetTicket("h1")
    \/ \E u \in Challengers \cup (Targets \ {NoUser}), r \in RoleChoices : RoleSync(u, r)
    \/ Tick

SpecBm == InitChallenge /\ [][NextBm]_vars

\* user t holds the rank directly above user u's
DirectlyAbove(t, u) == UserRank(t) = get_next_rank(UserRank(u))

\* C14: when a bm challenge with a named target is created, the target's rank is
\* the next rank above the challenger's; when a bm challenge becomes accepted,
\* the accepter's rank is the next rank above the challenger's at that moment.
C14_BmRanksAdjacent ==
    [][/\ \A i \in (DOMAIN challenges') \ ChallengeIds :
            (challenges'[i].ctype = "bm" /\ challenges'[i].challenged # NoUser) =>
                DirectlyAbove(challenges'[i].challenged, challenges'[i].challenger)
       /\ \A i \in ChallengeIds :
            (/\ challenges[i].ctype = "bm"
             /\ challenges[i].status # "accepted"
             /\ challenges'[i].status = "accepted") =>
                DirectlyAbove(challenges'[i].challenged, challenges[i].challenger)]_vars

-----------------------------------------------------------------------------
(* The match log: AdminCommands.log_edit beside recording and voiding *)

\* _edit_match_type: the types the menu offers
EditTypes == {"official", "bm", "friendly"}

\* matches: match_type TEXT NOT NULL CHECK(match_type IN ('official', 'bm'))
MatchTypeAllowed(t) == t \in {"official", "bm"}

\* log_edit: SELECT m.* ... FROM matches m ... WHERE m.match_id = ?
EditStart(p, m) ==
    /\ Starts(p)
    /\ IF m \notin MatchIds
       THEN /\ res' = [res EXCEPT ![p] = NoRes]
            /\ UNCHANGED <<pc, loc>>
       ELSE /\ loc' = [loc EXCEPT ![p] =
                         [IdleLoc EXCEPT !.op = "edit", !.cid = m,
                            !.data = [NoData EXCEPT !.challenger = matches[m].challenger_id,
                                         !.challenged = matches[m].challenged_id]]]
            /\ Goto(p, "ed_apply")
    /\ UNCHANGED <<users, challenges, activeTickets, now, OtherTables>>

\* _interactive_match_editing and _apply_match_changes: the moderator picks a new
\* winner among the two participants (w, NoUser for none) and a new type (t,
\* "none" for none) and saves: UPDATE matches SET <the picked fields> WHERE
\* match_id = ?.  Nothing else of the row and no user row is written.  A type
\* the CHECK constraint refuses makes the statement raise; the command reports
\* the failure.  Score and notes, which the menu also offers, are not modelled.
EditApply(p, w, t) ==
    /\ pc[p] = "ed_apply"
    /\ w \in {NoUser, loc[p].data.challenger, loc[p].data.challenged}
    /\ t \in EditTypes \cup {"none"}
    /\ w # NoUser \/ t # "none"
    /\ IF t # "none" /\ ~MatchTypeAllowed(t)
       THEN /\ UNCHANGED matches
            /\ Return(p, FALSE, loc[p].cid)
       ELSE /\ matches' =
                  IF loc[p].cid \in MatchIds
                  THEN [matches EXCEPT
                          ![loc[p].cid].winner_id = IF w # NoUser THEN w ELSE @,
                          ![loc[p].cid].match_type = IF t # "none" THEN t ELSE @]
                  ELSE matches
            /\ Return(p, TRUE, loc[p].cid)
    /\ UNCHANGED <<users, others, challenges, activeTickets, nextMatchId, prcs, now, q, snap>>

\* the three users start from the same profile
InitMatches == InitRating /\ \A u \in Users : users[u] = users[1]

NextMatches ==
    \/ \E c, d, w \in {1, 2} : RecordStart("h1", c, d, w, "official")
    \/ RecordInsert("h1")
    \/ UpdateStatsRead("h1")
    \/ UpdateStatsWriteWinner("h1")
    \/ UpdateStatsWriteLoser("h1")
    \/ \E m \in 1..MaxMatches : VoidStart("h1", m)
    \/ VoidApply("h1")
    \/ \E m \in 1..MaxMatches : EditStart("h1", m)
    \/ \E w \in Users \cup {NoUser}, t \in EditTypes \cup {"none"} : EditApply("h1", w, t)

SpecMatches == InitMatches /\ [][NextMatches]_vars

\* C15: once a match row has been created none of its fields is changed by any
\* operation, and a row disappears only in a step of the moderator's void, which
\* deletes it.
C15_MatchRowsImmutable ==
    [][/\ \A m \in MatchIds \cap DOMAIN matches' : matches'[m] = matches[m]
       /\ \A m \in MatchIds \ DOMAIN matches' :
            \E p \in Procs : loc[p].op = "void" /\ loc[p].cid = m /\ pc'[p] # pc[p]]_vars

-----------------------------------------------------------------------------
(* MatchSystem.record_bm_match and the pending rank change it asks for *)

\* the record command that inserted match m has not returned yet
Recording(m) == \E p \in Procs : pc[p] # "idle" /\ loc[p].op = "record" /\ loc[p].cid = m

\* SELECT ... FROM pending_rank_changes WHERE match_id = m AND status = 'pending'
PendingChangesOf(m) == {c \in DOMAIN prcs : prcs[c].match_id = m /\ prcs[c].status = "pending"}

\* C16: once the recording of a promotion-type (bm) match has returned, there is
\* exactly one pending rank change for the match if can_rank_change_occur
\* answered true at recording time (the verdict stored in the match's
\* rank_change) and none otherwise; and a recording whose verdict was false
\* returns success with the match and both stat updates committed.
C16_PendingIffPromotable ==
    \A m \in MatchIds :
        (matches[m].match_type = "bm" /\ ~Recording(m)) =>
            /\ Cardinality(PendingChangesOf(m)) = IF matches[m].rank_change THEN 1 ELSE 0
            /\ \A p \in Procs :
                 (pc[p] = "idle" /\ res[p].op = "record" /\ res[p].cid = m /\ ~matches[m].rank_change)
                     => res[p].ok

-----------------------------------------------------------------------------
(* ELOSystem.calculate_elo_change as a function of its four arguments *)

MaxRatingIndex == 8     \* ratings 0, 200, ... , 200 * MaxRatingIndex
MaxGames == 11          \* games played 0 .. MaxGames

EloRatings == {200 * k : k \in 0..MaxRatingIndex}
EloGames == 0..MaxGames

EloQuery(we, le, wg, lg) ==
    [outcome |-> "none", winner_elo |-> we, loser_elo |-> le,
     winner_games |-> wg, loser_games |-> lg, winner_change |-> 0, loser_change |-> 0]

InitElo ==
    /\ users = [u \in Users |-> UserRow(Rank("Bronze", "IV"))]
    /\ others = NoOthers
    /\ challenges = <<>>
    /\ activeTickets = {}
    /\ matches = <<>>
    /\ nextMatchId = 1
    /\ prcs = <<>>
    /\ now = 0
    /\ pc = [p \in Procs |-> "idle"]
    /\ loc = [p \in Procs |-> IdleLoc]
    /\ res = [p \in Procs |-> NoRes]
    /\ q \in {EloQuery(we, le, wg, lg) : we \in EloRatings, le \in EloRatings,
                                          wg \in EloGames, lg \in EloGames}
    /\ snap = NoSnap

\* winner_change, loser_change = calculate_elo_change(winner_elo, loser_elo, winner_games, loser_games)
CalculateEloChange ==
    /\ q.outcome = "none"
    /\ LET e == calculate_elo_change(q.winner_elo, q.loser_elo, q.winner_games, q.loser_games)
       IN  q' = [q EXCEPT !.outcome = "done", !.winner_change = e.winner_change,
                          !.loser_change = e.loser_change]
    /\ UNCHANGED <<users, others, challenges, activeTickets, matches, nextMatchId, prcs,
                   now, pc, loc, res, snap>>

NextElo == CalculateEloChange

SpecElo == InitElo /\ [][NextElo]_vars

\* C17: for all ratings and games played, calculate_elo_change returns a loser's
\* change that is the negation of the winner's change, so the two add up to 0.
C17_ZeroSum ==
    q.outcome = "done" =>
        /\ q.loser_change = 0 - q.winner_change
        /\ q.winner_change + q.loser_change = 0

\* a new winner has beaten an established loser and gained points
C17_MixedFactors ==
    /\ q.outcome = "done"
    /\ q.winner_games < new_player_threshold
    /\ q.loser_games >= new_player_threshold
    /\ q.winner_change > 0

RECURSIVE Pow10(_)
Pow10(n) == IF n = 0 THEN 1 ELSE 10 * Pow10(n - 1)

\* w = round(K / (1 + y)) for y = 10^(j/2), that is y * y = 10^j: the two
\* inequalities  w - 1/2 <= K / (1 + y) <= w + 1/2  cleared of fractions and,
\* where both sides are positive, squared
RoundsTo(w, K, j) ==
    LET a == 2 * w - 1              \* (2w - 1) * y <= 2K - 2w + 1
        b == 2 * K - 2 * w + 1
        c == 2 * K - 2 * w - 1      \* 2K - 2w - 1 <= (2w + 1) * y
        d == 2 * w + 1
    IN  IF j >= 0
        THEN /\ a <= 0 \/ a * a * Pow10(j) <= b * b
             /\ c <= 0 \/ c * c <= d * d * Pow10(j)
        ELSE /\ a <= 0 \/ a * a <= b * b * Pow10(0 - j)
             /\ c <= 0 \/ c * c * Pow10(0 - j) <= d * d

\* the one factor of the claim: 32 as soon as one of the two has played fewer than 10 games
SharedK(wg, lg) ==
    IF wg < new_player_threshold \/ lg < new_player_threshold
    THEN k_factor_new ELSE k_factor_established

\* C18: calculate_elo_change uses one K for both players, the larger of the two
\* per-player factors (32 below 10 games played, 16 otherwise), and returns
\* winner_change = round(K * (1 - E)) with E = 1 / (1 + 10^((loser - winner) / 400)),
\* that is round(K / (1 + 10^((winner - loser) / 400))): checked exactly where the
\* rating difference is a multiple of 200 of at most 800; for ratings 1000 and
\* 1000 with 5 games each the result is +16 and -16.
C18_SharedFactorRounded ==
    q.outcome = "done" =>
        LET K == SharedK(q.winner_games, q.loser_games)
            j == (q.winner_elo - q.loser_elo) \div 200
        IN  /\ q.winner_change \in 0..K
            /\ q.loser_change = 0 - q.winner_change
            /\ j \in -4..4 => RoundsTo(q.winner_change, K, j)
            /\ (q.winner_elo = 1000 /\ q.loser_elo = 1000 /\ q.winner_games = 5 /\ q.loser_games = 5)
                  => q.winner_change = 16 /\ q.loser_change = -16

\* the example of the claim has been computed
C18_Example ==
    /\ q.outcome = "done"
    /\ q.winner_elo = 1000 /\ q.loser_elo = 1000
    /\ q.winner_games = 5 /\ q.loser_games = 5

-----------------------------------------------------------------------------
(* config.get_next_rank applied again and again *)

MaxClimb == 18          \* ranks a walk may visit, the start and the end included

\* the configured ranks from the lowest to the highest, written out tier by tier
RECURSIVE LadderFrom(_)
LadderFrom(ti) ==
    IF ti > Len(TIER_HIERARCHY) THEN <<>>
    ELSE LET t == TIER_HIERARCHY[ti]
         IN  [k \in 1..Len(NUMERAL_HIERARCHY[t]) |-> Rank(t, NUMERAL_HIERARCHY[t][k])]
                \o LadderFrom(ti + 1)

LadderOrder == LadderFrom(1)

Placeholders == {GuestRank, EvalRank}

InitLadder ==
    /\ users = [u \in Users |-> UserRow(Rank("Bronze", "IV"))]
    /\ others = NoOthers
    /\ challenges = <<>>
    /\ activeTickets = {}
    /\ matches = <<>>
    /\ nextMatchId = 1
    /\ prcs = <<>>
    /\ now = 0
    /\ pc = [p \in Procs |-> "idle"]
    /\ loc = [p \in Procs |-> IdleLoc]
    /\ res = [p \in Procs |-> NoRes]
    /\ q \in {[outcome |-> "walk", path |-> <<r>>] : r \in Placeholders \cup LadderRanks}
    /\ snap = NoSnap

\* next_tier, next_numeral = get_next_rank(tier, numeral), from the rank reached last
Climb ==
    /\ q.outcome = "walk"
    /\ Len(q.path) < MaxClimb
    /\ q.path[Len(q.path)] # NoRank
    /\ q' = [q EXCEPT !.path = Append(@, get_next_rank(q.path[Len(q.path)]))]
    /\ UNCHANGED <<users, others, challenges, activeTickets, matches, nextMatchId, prcs,
                   now, pc, loc, res, snap>>

NextLadder == Climb

SpecLadder == InitLadder /\ [][NextLadder]_vars

IsPrefix(s, t) == Len(s) <= Len(t) /\ \A i \in 1..Len(s) : s[i] = t[i]

\* the walk the claim describes from rank r: the ranks above r in order, then the ceiling
Ascent(r) ==
    LET full == LadderOrder \o <<NoRank>>
    IN  IF r \in Placeholders THEN full
        ELSE SubSeq(full, IndexOf(LadderOrder, r) + 1, Len(full))

\* C19: repeated get_next_rank is a strict successor walk: from a guest or
\* evaluation placeholder it yields the lowest rank first, then every configured
\* (tier, numeral) pair exactly once in ascending order and the (None, None)
\* ceiling after the top rank; from any rank it yields the ranks above it in
\* order; no rank is repeated or skipped.
C19_StrictSuccessor ==
    q.outcome = "walk" =>
        /\ IsPrefix(Tail(q.path), Ascent(q.path[1]))
        /\ \A i, j \in 1..Len(q.path) : i # j => q.path[i] # q.path[j]
        /\ q.path[Len(q.path)] = NoRank => Len(q.path) = Len(Ascent(q.path[1])) + 1
        /\ Len(LadderOrder) = Cardinality(LadderRanks)

\* a walk from the guest placeholder has reached the ceiling
C19_GuestReachedCeiling ==
    /\ q.outcome = "walk"
    /\ q.path[1] = GuestRank
    /\ q.path[Len(q.path)] = NoRank
    /\ SeqRange(q.path) = LadderRanks \cup {GuestRank, NoRank}

-----------------------------------------------------------------------------
(* The expiry sweep: ChallengeSystem.cleanup_expired_challenges among creations
   and cancellations, one command at a time *)

\* the rows the UPDATE of the sweep matches: pending, expires_at <= datetime('now')
Due == {i \in ChallengeIds : challenges[i].status = "pending" /\ challenges[i].expires <= now}

\* ChallengeSystem.cleanup_expired_challenges: the UPDATE is committed and its
\* rowcount returned (kept in cid); the call itself does not raise.  Its only
\* caller, the ?cleanup command, then reads the integer with .get(...) and ends
\* in its except branch, after the UPDATE has been committed.
Sweep(p) ==
    /\ Starts(p)
    /\ challenges' = cleanup_expired_challenges
    /\ res' = [res EXCEPT ![p] = [op |-> "sweep", user |-> NoUser, cid |-> Cardinality(Due), ok |-> TRUE]]
    /\ UNCHANGED <<users, activeTickets, now, pc, loc, OtherTables>>

NextSweep ==
    \/ \E u \in Issuers, t \in Issuers \cup {NoUser}, ty \in ChallengeTypes : CreateStart("h1", u, t, ty)
    \/ CanUserChallengeUsers("h1")
    \/ CanUserChallengeSelect("h1")
    \/ CanUserChallengeCleanup("h1")
    \/ CanUserChallengeCount("h1")
    \/ CreateCount("h1")
    \/ CreateValidateBm("h1")
    \/ CreateInsert("h1")
    \/ CreateCooldown("h1")
    \/ \E u \in Issuers, i \in 1..MaxChallenges : CancelStart("h1", u, i)
    \/ CancelUpdate("h1")
    \/ Sweep("h1")
    \/ Tick

SpecSweep == InitChallenge /\ [][NextSweep]_vars

\* a step of the sweep: a handler that was idle and stays idle reports a sweep,
\* and the report or the table is new
SweepStep(p) ==
    /\ pc[p] = "idle" /\ pc'[p] = "idle"
    /\ res'[p].op = "sweep"
    /\ now' = now
    /\ res'[p] # res[p] \/ challenges' # challenges

-----------------------------------------------------------------------------
(* Interactive flows: the prompts of AdminCommands._record_from_ticket and the
   menu of AdminCommands._interactive_match_editing.  Each prompt is an await
   of bot.wait_for with a timeout; what the user types, or that the user types
   nothing, is the input of the step. *)

MaxTimeouts == 3        \* unanswered prompts counted per flow (the count stops there)

\* a flow ends without its commit step: the user typed exit / chose Cancel, or a
\* prompt whose timeout ends the flow ran out
Abort(p) ==
    /\ pc' = [pc EXCEPT ![p] = "idle"]
    /\ res' = [res EXCEPT ![p] = [op |-> "abort", user |-> loc[p].target, cid |-> loc[p].cid, ok |-> FALSE]]
    /\ loc' = [loc EXCEPT ![p] = IdleLoc]

TimedOut(p) == IF loc[p].timeouts < MaxTimeouts THEN loc[p].timeouts + 1 ELSE MaxTimeouts

\* log_duel in a ticket channel: the ticket gives the two participants and the
\* duel type; the winner may be given with the command (any member, NoUser for none)
TicketRecordStart(p, t, w) ==
    /\ Starts(p)
    /\ nextMatchId <= MaxMatches
    /\ t \in activeTickets /\ t.status = "active"
    /\ loc' = [loc EXCEPT ![p] =
                 [IdleLoc EXCEPT !.op = "record", !.target = w, !.ctype = t.duel_type,
                    !.ids = {t.channel},
                    !.data = [NoData EXCEPT !.challenger = t.challenger,
                                            !.challenged = t.challenged]]]
    /\ Goto(p, IF w = NoUser THEN "tr_winner" ELSE "tr_score")
    /\ UNCHANGED <<users, challenges, activeTickets, now, OtherTables>>

WinnerAnswers == {"first", "second", "exit", "timeout"}

\* "Select Winner": a reaction picks the challenger or the challenged, `exit`
\* cancels, and after 60 seconds "Winner selection timed out"
PromptWinner(p, a) ==
    /\ pc[p] = "tr_winner"
    /\ a \in WinnerAnswers
    /\ IF a \in {"exit", "timeout"}
       THEN Abort(p)
       ELSE /\ loc' = [loc EXCEPT ![p].target = IF a = "first" THEN loc[p].data.challenger
                                                ELSE loc[p].data.challenged]
            /\ Goto(p, "tr_score")
    /\ UNCHANGED <<users, challenges, activeTickets, now, OtherTables>>

ScoreAnswers == {"score", "skip", "invalid", "exit", "timeout"}

\* _get_score_with_validation: asks again after an invalid score; `exit` and the
\* timeout end the recording
PromptScore(p, a) ==
    /\ pc[p] = "tr_score"
    /\ a \in ScoreAnswers
    /\ IF a \in {"exit", "timeout"} THEN Abort(p)
       ELSE IF a = "invalid" THEN UNCHANGED <<pc, loc, res>>
       ELSE Goto(p, "tr_notes") /\ UNCHANGED loc
    /\ UNCHANGED <<users, challenges, activeTickets, now, OtherTables>>

NotesAnswers == {"text", "none", "exit", "timeout"}

\* "Additional Notes": `exit` cancels; on the timeout the recording continues
\* with empty notes
PromptNotes(p, a) ==
    /\ pc[p] = "tr_notes"
    /\ a \in NotesAnswers
    /\ IF a = "exit" THEN Abort(p)
       ELSE /\ loc' = [loc EXCEPT ![p].timeouts = IF a = "timeout" THEN TimedOut(p) ELSE 0]
            /\ Goto(p, "tr_commit")
    /\ UNCHANGED <<users, challenges, activeTickets, now, OtherTables>>

\* process_match_recording_workflow: loser = challenged if winner == challenger
\* else challenger; then record_official_match / record_bm_match: get_user of
\* winner and loser, calculate_new_ratings
TicketRecordCommit(p) ==
    /\ pc[p] = "tr_commit"
    /\ LET c == loc[p].data.challenger
           d == loc[p].data.challenged
           w == loc[p].target
           l == IF w = c THEN d ELSE c
           e == calculate_elo_change(users[w].elo_rating, users[l].elo_rating,
                                     users[w].games_played, users[l].games_played)
       IN  loc' = [loc EXCEPT ![p].data =
                     [NoData EXCEPT !.winner = w, !.loser = l,
                                    !.challenger = c, !.challenged = d,
                                    !.winner_change = e.winner_change,
                                    !.loser_change = e.loser_change,
                                    !.winner_old = users[w].elo_rating,
                                    !.loser_old = users[l].elo_rating]]
    /\ Goto(p, IF loc[p].ctype = "bm" THEN "rm_rank" ELSE "rm_insert")
    /\ snap' = [mid |-> 0, rows |-> users]
    /\ UNCHANGED <<users, others, challenges, activeTickets, matches, nextMatchId, prcs, now, q>>

\* a variant of the menu that writes each pick to the row at once
EditPickWritten(p, w, t) ==
    /\ pc[p] = "ed_apply"
    /\ \/ w \in {loc[p].data.challenger, loc[p].data.challenged} /\ t = "none"
       \/ w = NoUser /\ t \in EditTypes
    /\ loc' = [loc EXCEPT ![p].target = IF w # NoUser THEN w ELSE @,
                          ![p].ctype = IF t # "none" THEN t ELSE @,
                          ![p].timeouts = 0]
    /\ matches' = IF loc[p].cid \in MatchIds /\ w # NoUser
                  THEN [matches EXCEPT ![loc[p].cid].winner_id = w] ELSE matches
    /\ UNCHANGED <<pc, res, users, others, challenges, activeTickets, nextMatchId, prcs, now, q, snap>>

\* _interactive_match_editing: "Change Winner" (_edit_winner) or "Change Match
\* Type" (_edit_match_type) puts the pick into changes_made; the menu is shown again
EditPick(p, w, t) ==
    /\ pc[p] = "ed_apply"
    /\ \/ w \in {loc[p].data.challenger, loc[p].data.challenged} /\ t = "none"
       \/ w = NoUser /\ t \in EditTypes
    /\ loc' = [loc EXCEPT ![p].target = IF w # NoUser THEN w ELSE @,
                          ![p].ctype = IF t # "none" THEN t ELSE @,
                          ![p].timeouts = 0]
    /\ matches' = matches
    /\ UNCHANGED <<pc, res, users, others, challenges, activeTickets, nextMatchId, prcs, now, q, snap>>

\* "Save Changes": _apply_match_changes with changes_made; with nothing picked
\* "No changes were made to save"
EditSave(p) ==
    IF loc[p].target = NoUser /\ loc[p].ctype = "none"
    THEN /\ pc[p] = "ed_apply"
         /\ Abort(p)
         /\ UNCHANGED <<users, challenges, activeTickets, now, OtherTables>>
    ELSE EditApply(p, loc[p].target, loc[p].ctype)

\* "Cancel": "No changes were made."
EditCancel(p) ==
    /\ pc[p] = "ed_apply"
    /\ Abort(p)
    /\ UNCHANGED <<users, challenges, activeTickets, now, OtherTables>>

\* numbered_selection returns None after its timeout (120 seconds for the menu,
\* 30 for a pick): `if selection is None: continue`, the menu is sent again
EditTimeout(p) ==
    /\ pc[p] = "ed_apply"
    /\ loc' = [loc EXCEPT ![p].timeouts = TimedOut(p)]
    /\ UNCHANGED <<pc, res, users, challenges, activeTickets, now, OtherTables>>

\* a duel ticket is open: user 1 challenged user 2, user 2 accepted
DuelTicket(ty) ==
    [channel |-> 1, challenger |-> 1, challenged |-> 2, duel_type |-> ty,
     challenge_id |-> 1, status |-> "active"]

InitTicket ==
    /\ users = (1 :> UserRow(Rank("Bronze", "IV")) @@ 2 :> UserRow(Rank("Bronze", "III"))
                @@ 3 :> UserRow(Rank("Bronze", "III")))
    /\ others = NoOthers
    /\ \E ty \in ChallengeTypes :
          /\ challenges = <<[challenger |-> 1, challenged |-> 2, ctype |-> ty, status |-> "accepted",
                             expires |-> ChallengeTimeoutTicks, ticket |-> 1]>>
          /\ activeTickets = {DuelTicket(ty)}
    /\ matches = <<>>
    /\ nextMatchId = 1
    /\ prcs = <<>>
    /\ now = 0
    /\ pc = [p \in Procs |-> "idle"]
    /\ loc = [p \in Procs |-> IdleLoc]
    /\ res = [p \in Procs |-> NoRes]
    /\ q = NoQuery
    /\ snap = NoSnap

NextFlows ==
    \/ \E t \in activeTickets, w \in Users \cup {NoUser} : TicketRecordStart("h1", t, w)
    \/ \E a \in WinnerAnswers : PromptWinner("h1", a)
    \/ \E a \in ScoreAnswers : PromptScore("h1", a)
    \/ \E a \in NotesAnswers : PromptNotes("h1", a)
    \/ TicketRecordCommit("h1")
    \/ RecordRankCheck("h1")
    \/ RecordInsert("h1")
    \/ UpdateStatsRead("h1")
    \/ UpdateStatsWriteWinner("h1")
    \/ UpdateStatsWriteLoser("h1")
    \/ CreatePendingRankChange("h1")
    \/ \E m \in 1..MaxMatches : EditStart("h1", m)
    \/ \E w \in Users \cup {NoUser}, t \in EditTypes \cup {"none"} : EditPick("h1", w, t)
    \/ EditSave("h1")
    \/ EditCancel("h1")
    \/ EditTimeout("h1")

SpecFlows == InitTicket /\ [][NextFlows]_vars

\* the handler waits for an answer of the user
Prompting(p) == pc[p] \in {"tr_winner", "tr_score", "tr_notes", "ed_apply"}

\* the step ends the flow without a committed result, or leaves it at a prompt
NotCommitted(p) == Prompting(p)' \/ (pc'[p] = "idle" /\ ~res'[p].ok)

\* C21: while an interactive flow (the ticket's result prompts, the match edit
\* menu) has not reached its commit step, and when it is aborted there, no row
\* of users, matches, challenges or pending_rank_changes is modified, whatever
\* was entered before.
C21_AbortLeavesLedger ==
    [][\A p \in Procs :
          (Prompting(p) /\ NotCommitted(p)) =>
              UNCHANGED <<users, matches, challenges, prcs>>]_vars

\* the edit menu was cancelled after a winner had been picked for a recorded match
C21_CancelledAfterPick ==
    \E p \in Procs :
        /\ pc[p] = "idle"
        /\ res[p].op = "abort" /\ res[p].user # NoUser /\ res[p].cid \in MatchIds

(* Timeouts: every wait_for carries a timeout, so a prompt that gets no answer
   ends by itself; the steps between the prompts are awaits of the event loop
   and are run when their statement completes *)

\* the user answers a prompt
Answered ==
    \E p \in Procs :
        \/ \E a \in WinnerAnswers \ {"timeout"} : PromptWinner(p, a)
        \/ \E a \in ScoreAnswers \ {"timeout"} : PromptScore(p, a)
        \/ \E a \in NotesAnswers \ {"timeout"} : PromptNotes(p, a)
        \/ \E w \in Users \cup {NoUser}, t \in EditTypes \cup {"none"} : EditPick(p, w, t)
        \/ EditSave(p)
        \/ EditCancel(p)

\* a prompt runs into its timeout
PromptTimeout ==
    \E p \in Procs :
        \/ PromptWinner(p, "timeout")
        \/ PromptScore(p, "timeout")
        \/ PromptNotes(p, "timeout")
        \/ EditTimeout(p)

\* the statements of a recording that follow the prompts
RecordingStep ==
    \E p \in Procs :
        \/ TicketRecordCommit(p)
        \/ RecordRankCheck(p)
        \/ RecordInsert(p)
        \/ UpdateStatsRead(p)
        \/ UpdateStatsWriteWinner(p)
        \/ UpdateStatsWriteLoser(p)
        \/ CreatePendingRankChange(p)

SpecFlowsFair == SpecFlows /\ WF_vars(PromptTimeout) /\ WF_vars(RecordingStep)

\* C22: every interactive flow times out cleanly: once the user no longer
\* answers, each running flow (the match edit menu included) ends after finitely
\* many prompt timeouts, and no prompt is left waiting.
C22_SilentUserFlowEnds ==
    (<>[][~Answered]_vars) => \A p \in Procs : []<>(pc[p] = "idle")

-----------------------------------------------------------------------------
(* Two recordings at once: user 1 has played users 2 and 3, and both results
   are recorded by handlers that interleave at their awaits *)

Pairings == {<<1, 2>>, <<1, 3>>}

NextOverlap ==
    \/ \E p \in Procs, cd \in Pairings, w \in Users : RecordStart(p, cd[1], cd[2], w, "official")
    \/ \E p \in Procs : RecordInsert(p)
    \/ \E p \in Procs : UpdateStatsRead(p)
    \/ \E p \in Procs : UpdateStatsWriteWinner(p)
    \/ \E p \in Procs : UpdateStatsWriteLoser(p)

SpecOverlap == InitChallenge /\ [][NextOverlap]_vars

\* the matches user u took part in, and what they gave u
MatchesOf(u) == {m \in MatchIds : u \in {matches[m].winner_id, matches[m].loser_id}}

DeltaOf(m, u) ==
    IF matches[m].winner_id = u THEN matches[m].elo_change_winner ELSE matches[m].elo_change_loser

RECURSIVE SumDeltas(_, _)
SumDeltas(S, u) ==
    IF S = {} THEN 0
    ELSE LET m == CHOOSE x \in S : TRUE IN DeltaOf(m, u) + SumDeltas(S \ {m}, u)

Quiet == \A p \in Procs : pc[p] = "idle"

\* C24: no rating or stat update is lost under interleaving: once the recordings
\* have returned, every user's games played and wins plus losses have grown by
\* the number of matches recorded for the user (by 2 for the participant of two
\* concurrent recordings), and the stored rating is the starting rating plus
\* all the recorded changes.
C24_NoLostUpdate ==
    Quiet =>
        \A u \in Users :
            /\ users[u].games_played = Cardinality(MatchesOf(u))
            /\ users[u].wins + users[u].losses = Cardinality(MatchesOf(u))
            /\ users[u].elo_rating = starting_elo + SumDeltas(MatchesOf(u), u)

-----------------------------------------------------------------------------
(* One duel, one ticket: recordings made in the ticket's channel *)

\* the matches recorded for the two participants of ticket t
MatchesOfTicket(t) ==
    {m \in MatchIds : /\ matches[m].challenger_id = t.challenger
                      /\ matches[m].challenged_id = t.challenged}

\* C26: an accepted challenge, that is one duel ticket, yields at most one
\* match: a second recording for the same ticket is refused, so the two
\* participants' statistics are changed at most once for the duel (they enter
\* the ticket with no games played).
C26_OneMatchPerTicket ==
    \A t \in activeTickets :
        /\ Cardinality(MatchesOfTicket(t)) <= 1
        /\ users[t.challenger].games_played <= 1
        /\ users[t.challenged].games_played <= 1

-----------------------------------------------------------------------------
(* What the rows say about each other *)

\* C27: in every match row, after any sequence of recordings and edits, the
\* winner and the loser are two different users and together are exactly the
\* row's challenger and challenged users.
C27_WinnerLoserAreParticipants ==
    \A m \in MatchIds :
        /\ matches[m].winner_id # matches[m].loser_id
        /\ {matches[m].winner_id, matches[m].loser_id}
              = {matches[m].challenger_id, matches[m].challenged_id}

\* C28: for every user, after any sequence of match recordings, edits and
\* voids, wins, losses and games played are each 0 or more and wins plus losses
\* equals games played.
C28_StatsConsistent ==
    \A u \in Users :
        /\ users[u].wins >= 0 /\ users[u].losses >= 0 /\ users[u].games_played >= 0
        /\ users[u].wins + users[u].losses = users[u].games_played

\* C29: a match is marked rank-changed only by confirmation: its rank_change
\* flag is true only if a pending rank change linked to it has status
\* confirmed; it is false while the change is pending, after a rejection, and
\* when none was created.
C29_RankChangedOnlyByConfirm ==
    \A m \in MatchIds :
        matches[m].rank_change =>
            \E c \in DOMAIN prcs : prcs[c].match_id = m /\ prcs[c].status = "confirmed"

(* The administrator's confirm command *)

====
